---- MODULE Spec2Model ----
(***************************************************************************)
(* Model of examples/ckpt2splat.py: the checkpoint -> binary PLY converter. *)
(*                                                                         *)
(* An array is a record [shape, data]: shape is the tuple of dimensions,   *)
(* data the row-major flat contents; a tensor and the numpy array made of  *)
(* it (lines 48-59) are the same record.  A float is represented by the    *)
(* 32-bit pattern of its IEEE-754 single encoding, so struct.pack('<f', v) *)
(* is the four bytes of that pattern, least significant first.  A str is   *)
(* the tuple of its characters.  The file at output_path is the sequence   *)
(* of chunks handed to f.write, which closing the file makes durable.      *)
(* A run is either main() or a direct call of convert_checkpoint_to_ply.   *)
(***************************************************************************)
EXTENDS Integers, Sequences, FiniteSets, TLC

(* ---------------- bounds of the explored input space ---------------- *)
MaxN == 2
BigN == 10
MaxDev == 1

(* ---------------- program constants ---------------- *)
SHRest == 45
FloatBytes == 4

KeyOrder == <<"means", "opacities", "quats", "scales", "sh0", "shN">>
KeySet == {KeyOrder[k] : k \in 1..Len(KeyOrder)}

required_keys == <<"means", "opacities", "quats", "scales", "sh0", "shN">>

Width(f) ==
    CASE f = "means" -> 3
      [] f = "opacities" -> 1
      [] f = "quats" -> 4
      [] f = "scales" -> 3
      [] f = "sh0" -> 3
      [] f = "shN" -> SHRest

(* ---------------- arrays ---------------- *)
RECURSIVE Prod(_)
Prod(s) == IF s = <<>> THEN 1 ELSE Head(s) * Prod(Tail(s))

Ndim(a) == Len(a.shape)
Numel(a) == Prod(a.shape)

\* a[i, j] on a 2-D array (0-based); the caller checks InBounds first
InBounds(a, i, j) == i < a.shape[1] /\ j < a.shape[2]
At_colmajor(a, i, j) == a.data[j * a.shape[1] + i + 1]
At(a, i, j) == a.data[i * a.shape[2] + j + 1]

\* numpy a.reshape(-1, w) on a 1-D array
CanReshapeInfer_any(a, w) == TRUE
CanReshapeInfer(a, w) == Numel(a) % w = 0
ReshapeInfer(a, w) == [shape |-> <<Numel(a) \div w, w>>, data |-> a.data]

\* a.reshape(n, w)
CanReshapeTo(a, n, w) == Numel(a) = n * w
ReshapeTo(a, n, w) == [shape |-> <<n, w>>, data |-> a.data]

(* ---------------- input family ---------------- *)
Deviations == {"absent", "flat", "flatbad", "flatrow", "morerows", "narrow", "wide"}

VShape(v, n, w) ==
    CASE v = "canon" -> <<n, w>>
      [] v = "flat" -> <<n * w>>
      [] v = "flatbad" -> <<n * w + 1>>
      [] v = "flatrow" -> <<(n + 1) * w>>
      [] v = "morerows" -> <<n + 1, w>>
      [] v = "narrow" -> <<n, w - 1>>
      [] v = "wide" -> <<n, w + 1>>

KeyIndex(f) == CHOOSE k \in 1..Len(KeyOrder) : KeyOrder[k] = f

\* bit pattern of the k-th flat element of field f: never 0, distinct per (f, k)
Val(f, k) == KeyIndex(f) * 16777216 + k

MkArray(f, v, n) ==
    LET sh == VShape(v, n, Width(f))
    IN [shape |-> sh, data |-> [k \in 1..Prod(sh) |-> Val(f, k)]]

MkSplats(vr, n) ==
    [f \in {g \in KeySet : vr[g] # "absent"} |-> MkArray(f, vr[f], n)]

DevSets == {E \in SUBSET KeySet : Cardinality(E) <= MaxDev}

VariantChoices ==
    UNION {{[f \in KeySet |-> IF f \in D THEN dv[f] ELSE "canon"] : dv \in [D -> Deviations]} :
           D \in DevSets}

\* any set of keys left out, the others canonical
MissingChoices ==
    {[f \in KeySet |-> IF f \in M THEN "absent" ELSE "canon"] : M \in SUBSET KeySet}

(* ---------------- errors and files ---------------- *)
\* kind: the exception class; keys: the fields it names; at: the function that raised it
NoErr == [kind |-> "none", keys |-> {}, at |-> "none"]
Raise(kind, f, at) == [kind |-> kind, keys |-> {f}, at |-> at]

\* a chunk is what one f.write call appended to the file
HeaderChunk(b) == [kind |-> "header", bytes |-> b]
PackChunk(b) == [kind |-> "pack", bytes |-> b]
OtherChunk(b) == [kind |-> "other", bytes |-> b]

NoFile == [exists |-> FALSE, content |-> <<>>]
StaleFile == [exists |-> TRUE, content |-> <<OtherChunk(<<115, 116, 97, 108, 101>>)>>]

\* open(output_path, 'wb'): creates the file or truncates the one there
OpenWB(d) == [exists |-> TRUE, content |-> <<>>]

WithExit_leak(h) == h
\* leaving the with block closes the handle, whether or not an exception is in flight
WithExit(h) == IF h = "open" THEN "closed" ELSE h

(* ---------------- extract_data_from_ckpt ---------------- *)
ExtractFields == <<"opacities", "sh0", "shN">>

\* lines 25-27, one after the other, starting at the k-th of them
RECURSIVE ExtractFrom(_, _, _)
ExtractFrom(s, N, k) ==
    IF k > Len(ExtractFields) THEN [err |-> NoErr, splats |-> s]
    ELSE LET f == ExtractFields[k]
         IN IF f \notin DOMAIN s THEN [err |-> Raise("KeyError", f, "extract"), splats |-> s]
            ELSE IF ~CanReshapeTo(s[f], N, Width(f))
                 THEN [err |-> Raise("ReshapeError", f, "extract"), splats |-> s]
                 ELSE ExtractFrom([s EXCEPT ![f] = ReshapeTo(s[f], N, Width(f))], N, k + 1)

extract_data_from_ckpt(s) ==
    IF "means" \notin DOMAIN s THEN [err |-> Raise("KeyError", "means", "extract"), splats |-> s]
    ELSE ExtractFrom(s, s["means"].shape[1], 1)

(* ---------------- main: required keys ---------------- *)
missing_keys(s) == SelectSeq(required_keys, LAMBDA key : key \notin DOMAIN s)

SeqRange(q) == {q[k] : k \in 1..Len(q)}

(* ---------------- convert_checkpoint_to_ply: validation ---------------- *)
\* the first element of the sequence q that is in the set S
FirstIn(q, S) == q[CHOOSE k \in 1..Len(q) : q[k] \in S /\ \A m \in 1..(k - 1) : q[m] \notin S]

\* lines 62-73
NeedsReshape(a) == Ndim(a) = 1
EnsureShape(a, w) == IF NeedsReshape(a) THEN ReshapeInfer(a, w) ELSE a

NumVertices_opacities(a) == a["opacities"].shape[1]
\* line 75
NumVertices(a) == a["means"].shape[1]

\* lines 78-82, in order
AssertedFields == <<"opacities", "quats", "scales", "sh0", "shN">>
RowsAgree_atleast(a, n) == a.shape[1] >= n
RowsAgree(a, n) == a.shape[1] = n

Validate(cd) ==
    LET absent == {f \in KeySet : f \notin DOMAIN cd}
        badshape == {f \in KeySet : NeedsReshape(cd[f]) /\ ~CanReshapeInfer(cd[f], Width(f))}
    IN IF absent # {}
       THEN [err |-> Raise("KeyError", FirstIn(KeyOrder, absent), "convert"), arr |-> <<>>, n |-> 0]
       ELSE IF badshape # {}
       THEN [err |-> Raise("ReshapeError", FirstIn(KeyOrder, badshape), "convert"),
             arr |-> <<>>, n |-> 0]
       ELSE LET a == [f \in KeySet |-> EnsureShape(cd[f], Width(f))]
                n == NumVertices(a)
                mismatch == {f \in SeqRange(AssertedFields) : ~RowsAgree(a[f], n)}
            IN IF mismatch # {}
               THEN [err |-> Raise("AssertionError", FirstIn(AssertedFields, mismatch), "convert"),
                     arr |-> <<>>, n |-> 0]
               ELSE [err |-> NoErr, arr |-> a, n |-> n]

(* ---------------- convert_checkpoint_to_ply: header ---------------- *)
\* A str is the tuple of its characters.
s_ply ==
    << "p", "l", "y" >>

s_format ==
    << "f", "o", "r", "m", "a", "t", " ", "b", "i", "n", "a", "r",
       "y", "_", "l", "i", "t", "t", "l", "e", "_", "e", "n", "d",
       "i", "a", "n", " ", "1", ".", "0" >>

s_comment_generated ==
    << "c", "o", "m", "m", "e", "n", "t", " ", "G", "e", "n", "e",
       "r", "a", "t", "e", "d", " ", "b", "y", " ", "c", "h", "e",
       "c", "k", "p", "o", "i", "n", "t", " ", "c", "o", "n", "v",
       "e", "r", "t", "e", "r" >>

s_comment_axis ==
    << "c", "o", "m", "m", "e", "n", "t", " ", "V", "e", "r", "t",
       "i", "c", "a", "l", " ", "A", "x", "i", "s", ":", " ", "z" >>

s_element_vertex ==
    << "e", "l", "e", "m", "e", "n", "t", " ", "v", "e", "r", "t",
       "e", "x", " " >>

s_property_float ==
    << "p", "r", "o", "p", "e", "r", "t", "y", " ", "f", "l", "o",
       "a", "t", " " >>

s_f_dc ==
    << "f", "_", "d", "c", "_" >>

s_f_rest ==
    << "f", "_", "r", "e", "s", "t", "_" >>

s_opacity ==
    << "o", "p", "a", "c", "i", "t", "y" >>

s_scale ==
    << "s", "c", "a", "l", "e", "_" >>

s_rot ==
    << "r", "o", "t", "_" >>

s_end_header ==
    << "e", "n", "d", "_", "h", "e", "a", "d", "e", "r" >>

Digit == <<"0", "1", "2", "3", "4", "5", "6", "7", "8", "9">>

\* f"{n}" for a non-negative integer
RECURSIVE Str(_)
Str(n) == IF n < 10 THEN <<Digit[n + 1]>> ELSE Append(Str(n \div 10), Digit[(n % 10) + 1])

\* lines 87-102
HeaderHead(n) ==
    << s_ply,
       s_format,
       s_comment_generated,
       s_comment_axis,
       s_element_vertex \o Str(n),
       s_property_float \o <<"x">>,
       s_property_float \o <<"y">>,
       s_property_float \o <<"z">>,
       s_property_float \o <<"n", "x">>,
       s_property_float \o <<"n", "y">>,
       s_property_float \o <<"n", "z">>,
       s_property_float \o s_f_dc \o <<"0">>,
       s_property_float \o s_f_dc \o <<"1">>,
       s_property_float \o s_f_dc \o <<"2">> >>

HeaderRest_descending ==
    [k \in 1..SHRest |-> s_property_float \o s_f_rest \o Str(SHRest - k)]
\* lines 105-106
HeaderRest == [k \in 1..SHRest |-> s_property_float \o s_f_rest \o Str(k - 1)]

\* lines 109-119
HeaderTail ==
    << s_property_float \o s_opacity,
       s_property_float \o s_scale \o <<"0">>,
       s_property_float \o s_scale \o <<"1">>,
       s_property_float \o s_scale \o <<"2">>,
       s_property_float \o s_rot \o <<"0">>,
       s_property_float \o s_rot \o <<"1">>,
       s_property_float \o s_rot \o <<"2">>,
       s_property_float \o s_rot \o <<"3">>,
       s_end_header >>

Header(n) == HeaderHead(n) \o HeaderRest \o HeaderTail

\* '\n'.join(lines)
RECURSIVE Join(_)
Join(lines) ==
    IF lines = <<>> THEN <<>>
    ELSE IF Len(lines) = 1 THEN lines[1]
    ELSE lines[1] \o <<"\n">> \o Join(Tail(lines))

\* line 124
HeaderStr(n) == Join(Header(n)) \o <<"\n">>

\* str.encode('ascii')
AsciiCode ==
    ("\n" :> 10) @@ (" " :> 32) @@ ("." :> 46) @@ ("0" :> 48) @@ ("1" :> 49) @@ ("2" :> 50)
    @@ ("3" :> 51) @@ ("4" :> 52) @@ ("5" :> 53) @@ ("6" :> 54) @@ ("7" :> 55) @@ ("8" :> 56)
    @@ ("9" :> 57) @@ (":" :> 58) @@ ("A" :> 65) @@ ("G" :> 71) @@ ("V" :> 86) @@ ("_" :> 95)
    @@ ("a" :> 97) @@ ("b" :> 98) @@ ("c" :> 99) @@ ("d" :> 100) @@ ("e" :> 101) @@ ("f" :> 102)
    @@ ("h" :> 104) @@ ("i" :> 105) @@ ("k" :> 107) @@ ("l" :> 108) @@ ("m" :> 109) @@ ("n" :> 110)
    @@ ("o" :> 111) @@ ("p" :> 112) @@ ("r" :> 114) @@ ("s" :> 115) @@ ("t" :> 116) @@ ("v" :> 118)
    @@ ("x" :> 120) @@ ("y" :> 121) @@ ("z" :> 122)

EncodeAscii(s) == [k \in 1..Len(s) |-> AsciiCode[s[k]]]

(* ---------------- convert_checkpoint_to_ply: body ---------------- *)
\* struct.pack('<f', v): the four bytes of the pattern, least significant first
Pack32_double(v) ==
    << v % 256, (v \div 256) % 256, (v \div 65536) % 256, (v \div 16777216) % 256, 0, 0, 0, 0 >>
Pack32(v) == << v % 256, (v \div 256) % 256, (v \div 65536) % 256, (v \div 16777216) % 256 >>

RECURSIVE PackAll(_)
PackAll(vs) == IF vs = <<>> THEN <<>> ELSE Pack32(Head(vs)) \o PackAll(Tail(vs))

\* an argument of struct.pack: an element a[i, col] of a field, or the literal 0.0
Elem(f, col) == [f |-> f, col |-> col]
Zero == [f |-> "zero", col |-> 0]

\* lines 130-149: the f.write calls of one loop iteration, each with its arguments
RecordWrites ==
    << <<Elem("means", 0), Elem("means", 1), Elem("means", 2)>>,
       <<Zero, Zero, Zero>>,
       <<Elem("sh0", 0), Elem("sh0", 1), Elem("sh0", 2)>> >>
    \o [j \in 1..SHRest |-> <<Elem("shN", j - 1)>>]
    \o << <<Elem("opacities", 0)>>,
          <<Elem("scales", 0), Elem("scales", 1), Elem("scales", 2)>>,
          <<Elem("quats", 0), Elem("quats", 1), Elem("quats", 2), Elem("quats", 3)>> >>

ArgOK(a, i, e) == e.f = "zero" \/ InBounds(a[e.f], i, e.col)
ArgVal(a, i, e) == IF e.f = "zero" THEN 0 ELSE At(a[e.f], i, e.col)

\* the arguments of a struct.pack call are evaluated left to right before anything is written
BadArgs(a, i, w) == {k \in 1..Len(w) : ~ArgOK(a, i, w[k])}
FirstBad(a, i, w) == w[CHOOSE k \in BadArgs(a, i, w) : \A m \in BadArgs(a, i, w) : k <= m]

\* the writes of iteration i from the k-th on: chunks appended to acc until one raises
RECURSIVE WriteFrom(_, _, _, _)
WriteFrom(a, i, k, acc) ==
    IF k > Len(RecordWrites) THEN [err |-> NoErr, chunks |-> acc]
    ELSE LET w == RecordWrites[k]
         IN IF BadArgs(a, i, w) # {}
            THEN [err |-> Raise("IndexError", FirstBad(a, i, w).f, "write"), chunks |-> acc]
            ELSE WriteFrom(a, i, k + 1,
                           Append(acc, PackChunk(PackAll([m \in 1..Len(w) |-> ArgVal(a, i, w[m])]))))

WriteRecordResult(a, i) == WriteFrom(a, i, 1, <<>>)

(* ---------------- state ---------------- *)
VARIABLES
    flow,            \* "main": the command flow; "encoder": convert_checkpoint_to_ply called directly
    input,           \* the mapping handed to the run (ckpt['splats'], or checkpoint_data)
    disk0,           \* the file at output_path before the run
    splats,          \* main: the mapping as extract_data_from_ckpt leaves it
    checkpoint_data, \* the argument of convert_checkpoint_to_ply; <<>> until it is called
    arr,             \* convert: the six local arrays after lines 62-73
    num_vertices,
    i,               \* loop index of line 128
    pc,
    err,             \* the exception that ended the run, or main's missing-keys report
    handle,          \* "none", "open", "closed"
    opens,           \* number of times output_path was opened
    disk             \* the file at output_path

vars == <<flow, input, disk0, splats, checkpoint_data, arr, num_vertices, i, pc, err,
          handle, opens, disk>>

InputChoices ==
    {MkSplats(vr, n) : vr \in VariantChoices \cup MissingChoices, n \in 0..MaxN}
    \cup {MkSplats([f \in KeySet |-> "canon"], BigN)}

Init ==
    /\ flow \in {"main", "encoder"}
    /\ input \in InputChoices
    /\ disk0 \in {NoFile, StaleFile}
    /\ splats = input
    /\ checkpoint_data = IF flow = "encoder" THEN input ELSE <<>>
    /\ arr = <<>>
    /\ num_vertices = 0
    /\ i = 0
    /\ pc = IF flow = "main" THEN "extract" ELSE "convert"
    /\ err = NoErr
    /\ handle = "none"
    /\ opens = 0
    /\ disk = disk0

(* ---------------- actions ---------------- *)
\* main, line 186
ExtractDataFromCkpt ==
    /\ pc = "extract"
    /\ LET r == extract_data_from_ckpt(splats)
       IN /\ splats' = r.splats
          /\ err' = r.err
          /\ pc' = IF r.err = NoErr THEN "check" ELSE "error"
    /\ UNCHANGED <<flow, input, disk0, checkpoint_data, arr, num_vertices, i, handle, opens, disk>>

\* main, lines 188-192 and the call of line 204
CheckRequiredKeys ==
    /\ pc = "check"
    /\ LET mk == missing_keys(splats)
       IN IF mk # <<>>
          THEN /\ err' = [kind |-> "MissingKeys", keys |-> SeqRange(mk), at |-> "main"]
               /\ pc' = "returned"
               /\ UNCHANGED checkpoint_data
          ELSE /\ checkpoint_data' = splats
               /\ pc' = "convert"
               /\ UNCHANGED err
    /\ UNCHANGED <<flow, input, disk0, splats, arr, num_vertices, i, handle, opens, disk>>

\* convert_checkpoint_to_ply, lines 40-84
ConvertValidate ==
    /\ pc = "convert"
    /\ LET r == Validate(checkpoint_data)
       IN /\ err' = r.err
          /\ arr' = r.arr
          /\ num_vertices' = r.n
          /\ pc' = IF r.err = NoErr THEN "open" ELSE "error"
    /\ UNCHANGED <<flow, input, disk0, splats, checkpoint_data, i, handle, opens, disk>>

\* line 122
OpenFile ==
    /\ pc = "open"
    /\ handle' = "open"
    /\ opens' = opens + 1
    /\ disk' = OpenWB(disk)
    /\ pc' = "header"
    /\ UNCHANGED <<flow, input, disk0, splats, checkpoint_data, arr, num_vertices, i, err>>

\* line 122 when the operating system refuses
OpenFails ==
    /\ pc = "open"
    /\ err' = Raise("OSError", "output_path", "open")
    /\ pc' = "error"
    /\ UNCHANGED <<flow, input, disk0, splats, checkpoint_data, arr, num_vertices, i,
                   handle, opens, disk>>

\* lines 124-125
WriteHeader ==
    /\ pc = "header"
    /\ disk' = [disk EXCEPT !.content = Append(@, HeaderChunk(EncodeAscii(HeaderStr(num_vertices))))]
    /\ i' = 0
    /\ pc' = "body"
    /\ UNCHANGED <<flow, input, disk0, splats, checkpoint_data, arr, num_vertices, err,
                   handle, opens>>

\* lines 128-149, one iteration
WriteRecord ==
    /\ pc = "body"
    /\ i < num_vertices
    /\ LET r == WriteRecordResult(arr, i)
       IN /\ disk' = [disk EXCEPT !.content = @ \o r.chunks]
          /\ err' = r.err
          /\ IF r.err = NoErr
             THEN /\ i' = i + 1
                  /\ pc' = "body"
                  /\ UNCHANGED handle
             ELSE /\ i' = i
                  /\ pc' = "error"
                  /\ handle' = WithExit(handle)
    /\ UNCHANGED <<flow, input, disk0, splats, checkpoint_data, arr, num_vertices, opens>>

\* a write of lines 125-149 that the operating system refuses
WriteFails ==
    /\ \/ pc = "header"
       \/ pc = "body" /\ i < num_vertices
    /\ err' = Raise("OSError", "output_path", "write")
    /\ pc' = "error"
    /\ handle' = WithExit(handle)
    /\ UNCHANGED <<flow, input, disk0, splats, checkpoint_data, arr, num_vertices, i,
                   opens, disk>>

\* end of the loop and of the with block, lines 151-152
CloseFile ==
    /\ pc = "body"
    /\ i = num_vertices
    /\ handle' = WithExit(handle)
    /\ pc' = "done"
    /\ UNCHANGED <<flow, input, disk0, splats, checkpoint_data, arr, num_vertices, i,
                   err, opens, disk>>

Next ==
    \/ ExtractDataFromCkpt
    \/ CheckRequiredKeys
    \/ ConvertValidate
    \/ OpenFile
    \/ OpenFails
    \/ WriteHeader
    \/ WriteRecord
    \/ WriteFails
    \/ CloseFile

Spec == Init /\ [][Next]_vars

(* ======================= properties ======================= *)
Terminal == pc \in {"done", "error", "returned"}

\* convert_checkpoint_to_ply has been called, and has finished lines 40-84
ConvertEntered ==
    \/ pc \in {"convert", "open", "header", "body", "done"}
    \/ pc = "error" /\ err.at \in {"convert", "open", "write"}
ConvertValidated == ConvertEntered /\ pc # "convert"
RejectedByConvert == pc = "error" /\ err.at = "convert"
ShapeErrors == {"ReshapeError", "AssertionError"}

AllPresent(cd) == KeySet \subseteq DOMAIN cd

\* the number of rows of an array as handed in, when it has one
RowsDefined(cd, f) == Ndim(cd[f]) = 2 \/ Numel(cd[f]) % Width(f) = 0
Rows(cd, f) == IF Ndim(cd[f]) = 2 THEN cd[f].shape[1] ELSE Numel(cd[f]) \div Width(f)

\* every array is (N, w), or flat with N x w elements, N the rows of means
Canonical(cd, f, n) == cd[f].shape = <<n, Width(f)>> \/ cd[f].shape = <<n * Width(f)>>
ValidInput(cd) ==
    /\ AllPresent(cd)
    /\ RowsDefined(cd, "means")
    /\ \A f \in KeySet : Canonical(cd, f, Rows(cd, "means"))

\* element [r, c] of field f of a valid input
Given(cd, f, r, c) == cd[f].data[r * Width(f) + c + 1]

HeaderChunks == {k \in 1..Len(disk.content) : disk.content[k].kind = "header"}
PackChunks == {k \in 1..Len(disk.content) : disk.content[k].kind = "pack"}

\* the bytes of chunks lo..hi of the file, in order
RECURSIVE BytesOf(_, _, _)
BytesOf(content, lo, hi) ==
    IF lo > hi THEN <<>>
    ELSE IF lo = hi THEN content[lo].bytes
    ELSE LET mid == (lo + hi) \div 2
         IN BytesOf(content, lo, mid) \o BytesOf(content, mid + 1, hi)

\* the file's bytes after its first chunk
BodyBytes == BytesOf(disk.content, 2, Len(disk.content))

RECURSIVE SizeOf(_, _, _)
SizeOf(content, lo, hi) ==
    IF lo > hi THEN 0
    ELSE IF lo = hi THEN Len(content[lo].bytes)
    ELSE LET mid == (lo + hi) \div 2
         IN SizeOf(content, lo, mid) + SizeOf(content, mid + 1, hi)

FileSize == SizeOf(disk.content, 1, Len(disk.content))

\* the little-endian 32-bit value held by the s-th float slot (0-based) of a byte sequence
Float32At(b, s) ==
    b[4 * s + 1] + 256 * b[4 * s + 2] + 65536 * b[4 * s + 3] + 16777216 * b[4 * s + 4]

PropsPerRecord == 3 + 3 + 3 + SHRest + 1 + 3 + 4
RecordBytes == PropsPerRecord * FloatBytes

\* the field and column that slot k (0-based) of a record carries
SlotField(k) ==
    IF k < 3 THEN "means" ELSE IF k < 6 THEN "normal" ELSE IF k < 9 THEN "sh0"
    ELSE IF k < 54 THEN "shN" ELSE IF k < 55 THEN "opacities"
    ELSE IF k < 58 THEN "scales" ELSE "quats"
SlotCol(k) ==
    IF k < 3 THEN k ELSE IF k < 6 THEN k - 3 ELSE IF k < 9 THEN k - 6
    ELSE IF k < 54 THEN k - 9 ELSE IF k < 55 THEN 0
    ELSE IF k < 58 THEN k - 55 ELSE k - 58
Expected(cd, r, k) ==
    IF SlotField(k) = "normal" THEN 0 ELSE Given(cd, SlotField(k), r, SlotCol(k))

\* C1: after a successful run on a valid input of N vertices, the bytes after the header
\* are N records of 62 floats, record r holding means[r,0..2], three zeros, sh0[r,0..2],
\* shN[r,0..44], opacities[r,0], scales[r,0..2], quats[r,0..3], each value as given.
BodyLayout ==
    (pc = "done" /\ ValidInput(checkpoint_data)) =>
        \A cd \in {checkpoint_data} : \A n \in {Rows(cd, "means")} : \A body \in {BodyBytes} :
           /\ Len(body) = n * PropsPerRecord * FloatBytes
           /\ \A r \in 0..(n - 1) : \A k \in 0..(PropsPerRecord - 1) :
                 Float32At(body, PropsPerRecord * r + k) = Expected(cd, r, k)

BodyLayoutWitness ==
    /\ pc = "done"
    /\ ValidInput(checkpoint_data)
    /\ num_vertices >= 2
    /\ Len(BodyBytes) > 0

\* number of decimal digits of n
RECURSIVE NumDigits(_)
NumDigits(n) == IF n < 10 THEN 1 ELSE 1 + NumDigits(n \div 10)

HeaderLenWithoutCount == Len(HeaderStr(0)) - 1

\* C2: after a successful run the file holds header + 248 N bytes, N the rows of means,
\* and the header's length is a fixed number plus the number of decimal digits of N.
ByteSizeLaw ==
    (pc = "done") =>
        LET n == Rows(checkpoint_data, "means")
        IN /\ HeaderChunks = {1}
           /\ Len(disk.content[1].bytes) = HeaderLenWithoutCount + NumDigits(n)
           /\ FileSize = Len(disk.content[1].bytes) + n * RecordBytes

ByteSizeLawWitness ==
    /\ pc = "done"
    /\ num_vertices >= BigN
    /\ FileSize > RecordBytes * BigN

(* ---------------- reading the header back ---------------- *)
NewlineByte == AsciiCode["\n"]

\* the positions of the newlines of a text, ascending
NewlinesOf(hb) == SelectSeq([k \in 1..Len(hb) |-> k], LAMBDA k : hb[k] = NewlineByte)

\* the newline-terminated lines of a text, in order
LinesBetween(hb, nl) ==
    [j \in 1..Len(nl) |-> SubSeq(hb, IF j = 1 THEN 1 ELSE nl[j - 1] + 1, nl[j] - 1)]

IsPrefix(pre, t) == Len(t) >= Len(pre) /\ SubSeq(t, 1, Len(pre)) = pre

DigitBytes == 48..57
RECURSIVE DecVal(_)
DecVal(d) == IF d = <<>> THEN 0 ELSE 10 * DecVal(SubSeq(d, 1, Len(d) - 1)) + (d[Len(d)] - 48)

Decimal(c) == IF c < 10 THEN <<Digit[c + 1]>> ELSE <<Digit[(c \div 10) + 1], Digit[(c % 10) + 1]>>
Axis == <<"x", "y", "z">>

\* the property name the format gives slot k (0-based) of a record
SlotName(k) ==
    LET f == SlotField(k)
        c == SlotCol(k)
    IN CASE f = "means" -> <<Axis[c + 1]>>
         [] f = "normal" -> <<"n", Axis[c + 1]>>
         [] f = "sh0" -> <<"f", "_", "d", "c", "_">> \o Decimal(c)
         [] f = "shN" -> <<"f", "_", "r", "e", "s", "t", "_">> \o Decimal(c)
         [] f = "opacities" -> <<"o", "p", "a", "c", "i", "t", "y">>
         [] f = "scales" -> <<"s", "c", "a", "l", "e", "_">> \o Decimal(c)
         [] f = "quats" -> <<"r", "o", "t", "_">> \o Decimal(c)

PropertyFloatBytes == EncodeAscii(s_property_float)
ElementBytes == EncodeAscii(<<"e", "l", "e", "m", "e", "n", "t", " ">>)
ElementVertexBytes == EncodeAscii(s_element_vertex)
EndHeaderBytes == EncodeAscii(<<"e", "n", "d", "_", "h", "e", "a", "d", "e", "r">>)

ExpectedPropertyLines ==
    [k \in 1..PropsPerRecord |-> PropertyFloatBytes \o EncodeAscii(SlotName(k - 1))]

\* a text that ends with the line end_header, holds that line once, and whose
\* 'property float' lines are, in order, the names of the record's slots
WellFormedHeader(hb) ==
    \A nl \in {NewlinesOf(hb)} : \A lines \in {LinesBetween(hb, nl)} :
       /\ hb[Len(hb)] = NewlineByte
       /\ lines[Len(lines)] = EndHeaderBytes
       /\ Len(SelectSeq(lines, LAMBDA l : l = EndHeaderBytes)) = 1
       /\ SelectSeq(lines, LAMBDA l : IsPrefix(PropertyFloatBytes, l)) = ExpectedPropertyLines

\* the texts line 125 can write, for the vertex counts within the bounds
ProducibleHeaders == {EncodeAscii(HeaderStr(n)) : n \in 0..(MaxN + BigN)}
WellFormedHeaders == {hb \in ProducibleHeaders : WellFormedHeader(hb)}

\* C3: the header is written once, before any record; it ends with the line end_header;
\* its 'property float' lines are, in order, the 62 names x,y,z,nx,ny,nz,f_dc_0..2,
\* f_rest_0..44,opacity,scale_0..2,rot_0..3, the k-th name being that of slot k of a record.
HeaderOnceAndOrdered ==
    /\ opens = 0 => HeaderChunks = {}
    /\ (opens > 0 /\ disk.content # <<>>) => HeaderChunks = {1}
    /\ pc \in {"body", "done"} => HeaderChunks = {1}
    /\ HeaderChunks # {} => disk.content[1].bytes \in WellFormedHeaders

HeaderOnceAndOrderedWitness ==
    /\ pc = "done"
    /\ num_vertices >= 1
    /\ HeaderChunks = {1}
    /\ PackChunks # {}

\* the number a header announces: the decimal value of its only 'element' line, which
\* is 'element vertex <digits>'; -1 when the text has no such line
AnnouncedCount(hb) ==
    LET els == SelectSeq(LinesBetween(hb, NewlinesOf(hb)), LAMBDA l : IsPrefix(ElementBytes, l))
        d == SubSeq(els[1], Len(ElementVertexBytes) + 1, Len(els[1]))
    IN IF /\ Len(els) = 1
          /\ IsPrefix(ElementVertexBytes, els[1])
          /\ d # <<>>
          /\ \A k \in 1..Len(d) : d[k] \in DigitBytes
          /\ Len(d) > 1 => d[1] # 48
       THEN DecVal(d)
       ELSE -1

CountedHeaders == {<<hb, AnnouncedCount(hb)>> : hb \in ProducibleHeaders}

\* C8: the header holds exactly one 'element' line, 'element vertex N' with N the decimal
\* number of rows of means; an input of zero rows is not rejected and its file is the
\* header alone.
VertexCountLine ==
    /\ HeaderChunks # {} =>
          <<disk.content[1].bytes, Rows(checkpoint_data, "means")>> \in CountedHeaders
    /\ (ConvertValidated /\ ValidInput(checkpoint_data) /\ Rows(checkpoint_data, "means") = 0)
          => ~RejectedByConvert
    /\ (pc = "done" /\ Rows(checkpoint_data, "means") = 0)
          => (PackChunks = {} /\ FileSize = Len(disk.content[1].bytes))

VertexCountLineWitness ==
    /\ pc = "done"
    /\ ValidInput(checkpoint_data)
    /\ Rows(checkpoint_data, "means") = 0
    /\ HeaderChunks = {1}

(* ---------------- validation ---------------- *)
Untouched == disk = disk0 /\ opens = 0 /\ handle = "none"

\* the fields whose row count differs from that of means
RowMismatches(cd) == {f \in KeySet : Rows(cd, f) # Rows(cd, "means")}

\* C4: when the arrays handed to the encoder all have a row count and one of them has
\* another row count than means, the encoder raises the shape-mismatch assertion naming
\* such a field, and output_path is not opened, created, truncated or written; the file
\* is not touched before validation has passed, whatever makes it fail.
RowMismatchFailsBeforeOpen ==
    /\ pc \in {"extract", "check", "convert", "open", "returned"} => Untouched
    /\ (pc = "error" /\ err.at \in {"extract", "convert"}) => Untouched
    /\ ( /\ ConvertValidated
         /\ AllPresent(checkpoint_data)
         /\ \A f \in KeySet : RowsDefined(checkpoint_data, f)
         /\ RowMismatches(checkpoint_data) # {} )
       => /\ RejectedByConvert
          /\ err.kind = "AssertionError"
          /\ err.keys # {}
          /\ err.keys \subseteq RowMismatches(checkpoint_data)
          /\ Untouched

RowMismatchFailsBeforeOpenWitness ==
    /\ pc = "error"
    /\ err.kind = "AssertionError"
    /\ err.keys = {"quats"}
    /\ Ndim(checkpoint_data["quats"]) = 2
    /\ disk0 = StaleFile
    /\ disk = StaleFile

\* the 2-D fields whose width is not the canonical one
WidthMismatches(cd) == {f \in KeySet : Ndim(cd[f]) = 2 /\ cd[f].shape[2] # Width(f)}

\* C5: a 2-D array whose width is not the canonical one makes the encoder fail with a
\* shape-mismatch error before output_path is touched.
WidthMismatchRejected ==
    ( /\ ConvertValidated
      /\ AllPresent(checkpoint_data)
      /\ WidthMismatches(checkpoint_data) # {} )
    => /\ RejectedByConvert
       /\ err.kind \in ShapeErrors
       /\ Untouched

\* a flat array of field f whose length is not N x w, N the rows of means
FlatWrongLength(cd, f) ==
    /\ Ndim(cd[f]) = 1
    /\ \/ ~RowsDefined(cd, "means")
       \/ Numel(cd[f]) # Rows(cd, "means") * Width(f)

\* a flat array of field f whose length is not n x w
FlatOtherLength(cd, f, n) == Ndim(cd[f]) = 1 /\ Numel(cd[f]) # n * Width(f)
RejectedByExtract == pc = "error" /\ err.at = "extract"

\* every array has the row count of means (a flat one: N x w elements)
RowsAllAgree(cd) ==
    /\ \A f \in KeySet : RowsDefined(cd, f)
    /\ RowMismatches(cd) = {}

Missing == KeySet \ DOMAIN input

\* C7: a run whose input lacks required keys ends, output_path untouched, reporting the
\* keys that are missing.
MissingKeysReported ==
    (Terminal /\ Missing # {}) =>
        /\ err.kind \in {"KeyError", "MissingKeys"}
        /\ err.keys = Missing
        /\ Untouched

(* ---------------- the output file ---------------- *)
\* the file is this run's complete output: a header and the records it announces
CompleteFile ==
    /\ disk.exists
    /\ HeaderChunks = {1}
    /\ SizeOf(disk.content, 2, Len(disk.content)) = num_vertices * RecordBytes

\* C9: when the run has ended, the file at output_path is as it was before the run, or
\* holds a header and exactly the N records of 248 bytes the header announces.
NoPartialFile == Terminal => (disk = disk0 \/ CompleteFile)

\* C10: output_path is opened at most once; no run ends with the handle open; the handle
\* is open only while the with block runs; a run that fails validation never opens it.
HandleReleased ==
    /\ opens <= 1
    /\ Terminal => handle # "open"
    /\ handle = "open" <=> pc \in {"header", "body"}
    /\ (pc = "done" \/ (pc = "error" /\ err.at = "write")) => (handle = "closed" /\ opens = 1)
    /\ (pc \in {"error", "returned"} /\ err.at \in {"main", "extract", "convert"})
          => (opens = 0 /\ handle = "none")

HandleReleasedWitness ==
    /\ pc = "error"
    /\ err.at = "write"
    /\ i >= 1
    /\ handle = "closed"

====
